---------------------------- MODULE Spec2Model ----------------------------
(***************************************************************************)
(* A model of resource_monitor.py: the CPU delta estimator and the         *)
(* sampling tick (get_system_times, get_cpu_usage, update_metrics), the    *)
(* colour mapper (get_smooth_color_by_usage, interpolate_color), the       *)
(* settings model with its QSettings store (load_settings, save_settings   *)
(* and the menu handlers), and the registry autostart functions            *)
(* (add_to_startup, remove_from_startup, is_autostart_enabled).            *)
(*                                                                         *)
(* Python floats are modelled as exact rationals [num, den] with den > 0.  *)
(***************************************************************************)
EXTENDS Integers, Sequences, FiniteSets, TLC

(***************************************************************************)
(* Bounds of the model.                                                    *)
(***************************************************************************)
\* The colour mapper is applied to the percentages k / PctScale, 0 <= k <= 100 * PctScale.
PctScale == 4

(***************************************************************************)
(* Rational arithmetic standing for the float arithmetic of the source.    *)
(***************************************************************************)
Rat(n, d) == [num |-> n, den |-> d]

\* The value no call has produced yet.
NoUsage == [num |-> 0, den |-> 0]

\* Python's int(x) on a float: truncation toward zero, of n / d with d > 0.
Trunc(n, d) == IF n >= 0 THEN n \div d ELSE -((-n) \div d)

\* The integer that the format spec ".0f" prints for n / d (d > 0): the nearest
\* integer, a tie going to the even one.
FormatF0(n, d) ==
    LET q == n \div d
        r == n - q * d
    IN  IF 2 * r < d THEN q
        ELSE IF 2 * r > d THEN q + 1
        ELSE IF q % 2 = 0 THEN q ELSE q + 1

(***************************************************************************)
(* The colour mapper.                                                      *)
(***************************************************************************)
green == <<0, 255, 0>>

yellow == <<255, 255, 0>>

red == <<255, 0, 0>>

\* A label without a colour in its style sheet.
NoColor == <<>>

\* A plausible slip: the channel rounded to the nearest integer instead of truncated.
interpolate_color_rounding(color1, color2, t) ==
    [i \in 1..3 |-> FormatF0(color1[i] * t.den + (color2[i] - color1[i]) * t.num, t.den)]

\* A plausible slip: the interpolation running from color2's difference doubled.
interpolate_color_overshoot(color1, color2, t) ==
    [i \in 1..3 |-> Trunc(color1[i] * t.den + 2 * (color2[i] - color1[i]) * t.num, t.den)]

\* int(color1[i] + (color2[i] - color1[i]) * t) for each channel.
interpolate_color(color1, color2, t) ==
    [i \in 1..3 |-> Trunc(color1[i] * t.den + (color2[i] - color1[i]) * t.num, t.den)]

get_smooth_color_by_usage(u) ==
    IF u.num < 50 * u.den
    THEN interpolate_color(green, yellow, Rat(u.num, 50 * u.den))
    ELSE interpolate_color(yellow, red, Rat(u.num - 50 * u.den, 50 * u.den))

(***************************************************************************)
(* The counter source and the CPU delta estimator.                         *)
(***************************************************************************)
\* What get_system_times returns when GetSystemTimes fails.
ZeroSnapshot == <<0, 0, 0>>

\* The cumulative (idle, kernel, user) counters the OS may hold.
IdleTimes == {1000, 1100, 1300}

KernelTimes == {500, 600}

UserTimes == {500, 600}

Snapshots == IdleTimes \X KernelTimes \X UserTimes

\* Cumulative counters never decrease.
NotEarlier(new, old) == \A i \in 1..3 : new[i] >= old[i]

\* success is GetSystemTimes' return value, times the counters it filled in.
get_system_times(ok, times) ==
    IF ~ok
    THEN [success |-> FALSE, idle |-> 0, kernel |-> 0, user |-> 0]
    ELSE [success |-> TRUE, idle |-> times[1], kernel |-> times[2], user |-> times[3]]

\* 100.0 * (1.0 - idle_diff / float(total_diff)), kept with a positive denominator.
usage_of(idle_diff, total_diff) ==
    IF total_diff > 0
    THEN Rat(100 * (total_diff - idle_diff), total_diff)
    ELSE Rat(100 * (idle_diff - total_diff), -total_diff)

\* A plausible slip: user time left out of the total.
get_cpu_usage_kernel_only(p_idle, p_kernel, p_user, t) ==
    LET idle_diff == t.idle - p_idle
        kernel_diff == t.kernel - p_kernel
        total_diff == kernel_diff
    IN  [prev_idle |-> t.idle, prev_kernel |-> t.kernel, prev_user |-> t.user,
         usage |-> IF total_diff = 0 THEN Rat(0, 1) ELSE usage_of(idle_diff, total_diff)]

\* get_cpu_usage for the stored sample (p_idle, p_kernel, p_user) and the reading t
\* of get_system_times: the sample it stores and the value it returns.
get_cpu_usage(p_idle, p_kernel, p_user, t) ==
    LET idle_diff == t.idle - p_idle
        kernel_diff == t.kernel - p_kernel
        user_diff == t.user - p_user
        total_diff == kernel_diff + user_diff
    IN  [prev_idle |-> t.idle, prev_kernel |-> t.kernel, prev_user |-> t.user,
         usage |-> IF total_diff = 0 THEN Rat(0, 1) ELSE usage_of(idle_diff, total_diff)]

\* GlobalMemoryStatusEx's return value and the dwMemoryLoad it fills in.
get_ram_usage(m) == IF ~m.ok THEN 0 ELSE m.dwMemoryLoad

(***************************************************************************)
(* Labels: the text and the colour of a QLabel.                            *)
(***************************************************************************)
\* The empty text of a metric that is not shown.
Blank == [kind |-> "blank", val |-> 0, color |-> NoColor]

\* "GPU: N/A"
NotAvailable == [kind |-> "N/A", val |-> 0, color |-> NoColor]

\* "CPU: <val>%", "GPU: <val>%", "RAM: <val>%"
Percent(v, c) == [kind |-> "percent", val |-> v, color |-> c]

\* The colour update_label_color puts in the label's style sheet.
update_label_color(s, u) ==
    IF s.color_mode = "Colored" THEN get_smooth_color_by_usage(u) ELSE NoColor

(***************************************************************************)
(* The settings and their QSettings store.                                 *)
(***************************************************************************)
SettingsKeys ==
    {"show_cpu", "show_gpu", "show_ram", "update_interval", "font_size",
     "window_width", "window_height", "background_opacity", "text_opacity",
     "color_mode", "window_x", "window_y"}

BoolKeys == {"show_cpu", "show_gpu", "show_ram"}

\* What the store holds under a key: nothing, a string, an integer, or the
\* decimal string of an integer.
Absent == [t |-> "absent"]

StrVal(s) == [t |-> "str", s |-> s]

IntVal(n) == [t |-> "int", n |-> n]

NumStr(n) == [t |-> "numstr", d |-> n]

\* setValue of a bool writes its string form; of an int, the integer; of a str, the string.
WriteBool(b) == StrVal(IF b THEN "true" ELSE "false")

\* QVariant's conversion to bool: a string is false when empty, "0" or "false".
ToBool(raw) ==
    IF raw.t = "str" THEN ~(raw.s \in {"", "0", "false"})
    ELSE IF raw.t = "int" THEN raw.n # 0
    ELSE raw.d # 0

\* QVariant's conversion to int.
ToInt(raw) ==
    IF raw.t = "int" THEN raw.n
    ELSE IF raw.t = "numstr" THEN raw.d
    ELSE 0

value_bool(st, key, default) == IF st[key] = Absent THEN default ELSE ToBool(st[key])

value_int(st, key, default) == IF st[key] = Absent THEN default ELSE ToInt(st[key])

value_str(st, key, default) == IF st[key] = Absent THEN default ELSE st[key].s

load_settings(st) ==
    [show_cpu |-> value_bool(st, "show_cpu", TRUE),
     show_gpu |-> value_bool(st, "show_gpu", TRUE),
     show_ram |-> value_bool(st, "show_ram", TRUE),
     update_interval |-> value_int(st, "update_interval", 2000),
     font_size |-> value_int(st, "font_size", 16),
     window_width |-> value_int(st, "window_width", 300),
     window_height |-> value_int(st, "window_height", 50),
     background_opacity |-> value_int(st, "background_opacity", 100),
     text_opacity |-> value_int(st, "text_opacity", 100),
     color_mode |-> value_str(st, "color_mode", "System"),
     window_x |-> value_int(st, "window_x", 100),
     window_y |-> value_int(st, "window_y", 100)]

\* A plausible slip: show_gpu left out of what is written.
save_settings_without_show_gpu(s, p, st) ==
    [k \in SettingsKeys |->
        IF k = "show_gpu" THEN st[k]
        ELSE IF k \in BoolKeys THEN WriteBool(s[k])
        ELSE IF k = "color_mode" THEN StrVal(s.color_mode)
        ELSE IF k = "window_x" THEN IntVal(p[1])
        ELSE IF k = "window_y" THEN IntVal(p[2])
        ELSE IntVal(s[k])]

\* A plausible slip: the interval written in seconds and read back as milliseconds.
save_settings_in_seconds(s, p, st) ==
    [k \in SettingsKeys |->
        IF k \in BoolKeys THEN WriteBool(s[k])
        ELSE IF k = "color_mode" THEN StrVal(s.color_mode)
        ELSE IF k = "window_x" THEN IntVal(p[1])
        ELSE IF k = "window_y" THEN IntVal(p[2])
        ELSE IF k = "update_interval" THEN IntVal(s[k] \div 1000)
        ELSE IntVal(s[k])]

\* The store after save_settings, for the settings s and the window position p
\* (self.x(), self.y()); st is the store before.
save_settings(s, p, st) ==
    [k \in SettingsKeys |->
        IF k \in BoolKeys THEN WriteBool(s[k])
        ELSE IF k = "color_mode" THEN StrVal(s.color_mode)
        ELSE IF k = "window_x" THEN IntVal(p[1])
        ELSE IF k = "window_y" THEN IntVal(p[2])
        ELSE IntVal(s[k])]

\* check_gpu, for the device list g: the settings, the GPU label and the store after it.
check_gpu(s, p, label, st, g) ==
    IF g = <<>>
    THEN LET off == [s EXCEPT !.show_gpu = FALSE]
         IN  [settings |-> off, gpu_label |-> NotAvailable,
              store |-> save_settings(off, p, st)]
    ELSE [settings |-> s, gpu_label |-> label, store |-> st]

(***************************************************************************)
(* What the user and the environment may supply.                           *)
(***************************************************************************)
\* The "Update Interval" menu.
Intervals == {1000, 2000, 5000}

COLOR_MODES == {"System", "Colored"}

\* QInputDialog.getInt results: the font size is at least 8, a width or a height
\* at least 1, an opacity within 0..100.
FontSizes == {8, 16}

Widths == {1, 300}

Heights == {1, 50}

Opacities == {0, 100}

\* Where the window may be dragged to.
Positions == {<<100, 100>>, <<140, 100>>, <<140, 140>>}

\* GPUtil.getGPUs(): no device, or one device with its load in percent (load * 100).
GpuLists == {<<>>, <<0>>, <<50>>}

\* GlobalMemoryStatusEx: a failure, or a memory load in percent.
MemoryStatuses == {[ok |-> FALSE, dwMemoryLoad |-> 0], [ok |-> TRUE, dwMemoryLoad |-> 40]}

\* Stores a process may start from: the empty store of a first run, and stores
\* written by an earlier run.
EmptyStore == [k \in SettingsKeys |-> Absent]

SavedStore ==
    [k \in SettingsKeys |->
        IF k = "show_cpu" THEN WriteBool(TRUE)
        ELSE IF k = "show_gpu" THEN WriteBool(TRUE)
        ELSE IF k = "show_ram" THEN WriteBool(FALSE)
        ELSE IF k = "update_interval" THEN IntVal(1000)
        ELSE IF k = "font_size" THEN IntVal(8)
        ELSE IF k = "window_width" THEN IntVal(300)
        ELSE IF k = "window_height" THEN IntVal(50)
        ELSE IF k = "background_opacity" THEN IntVal(0)
        ELSE IF k = "text_opacity" THEN IntVal(100)
        ELSE IF k = "color_mode" THEN StrVal("Colored")
        ELSE IF k = "window_x" THEN IntVal(140)
        ELSE IntVal(100)]

StartStores == {EmptyStore, SavedStore}

(***************************************************************************)
(* State.                                                                  *)
(***************************************************************************)
VARIABLES
    settings,        \* the widget's settings attributes (show_cpu .. window_y)
    pos,             \* the window's position (self.x(), self.y())
    prev_idle,       \* the CPU estimator's previous sample
    prev_kernel,
    prev_user,
    cpu_label,       \* the three QLabels
    gpu_label,
    ram_label,
    timer_interval,  \* the period the QTimer is armed with
    store,           \* QSettings("ResourceMonitor", "Settings")
    os_times,        \* the OS's cumulative (idle, kernel, user) counters
    api_ok,          \* whether GetSystemTimes succeeds
    gpus,            \* what GPUtil.getGPUs() returns
    memory,          \* what GlobalMemoryStatusEx returns
    last_call,       \* the last get_cpu_usage call: its stored sample, reading and result
    loaded_show_gpu, \* show_gpu as load_settings read it at start-up
    gpu_seen,        \* whether a GPU has been available since start-up
    usage,           \* the colour mapper's argument
    color,           \* and its result
    rounds,          \* load/save round trips done
    first_store,     \* the store after the first round trip
    run_key,         \* the values of HKCU\...\Run: a set of [name, data]
    stable_dir,      \* whether %LOCALAPPDATA%\ResourceMonitor exists
    stable_exe,      \* whether ResourceMonitor.exe exists in it
    mkdir_ok,        \* whether the OS grants creating that directory
    copy_ok,         \* whether the OS grants copying the executable into it
    reg_ok,          \* whether the OS grants KEY_SET_VALUE access to the Run key
    calls,           \* the autostart calls made since the OS state last changed
                     \* from outside, the last MaxCalls of them
    stack,           \* the GUI thread's call stack, the innermost frame last
    timer_due        \* whether the QTimer has expired and its timeout is not yet delivered

widgetVars ==
    <<settings, pos, prev_idle, prev_kernel, prev_user, cpu_label, gpu_label,
      ram_label, timer_interval, store, last_call, loaded_show_gpu>>

envVars == <<os_times, api_ok, gpus, memory, gpu_seen>>

colorVars == <<usage, color>>

roundVars == <<rounds, first_store>>

autoVars == <<run_key, stable_dir, stable_exe, mkdir_ok, copy_ok, reg_ok, calls>>

loopVars == <<stack, timer_due>>

vars == <<widgetVars, envVars, colorVars, roundVars, autoVars, loopVars>>

\* No get_cpu_usage call yet.
NoCall == [called |-> FALSE]

colorParked == usage = Rat(0, 1) /\ color = NoColor

roundParked == rounds = 0 /\ first_store = EmptyStore

\* Autostart never set up and never asked for.
autoParked ==
    /\ run_key = {}
    /\ stable_dir = FALSE
    /\ stable_exe = FALSE
    /\ mkdir_ok = TRUE
    /\ copy_ok = TRUE
    /\ reg_ok = TRUE
    /\ calls = <<>>

\* The GUI thread in the main event loop, no handler running, the timer not due.
loopParked == stack = <<>> /\ timer_due = FALSE

(***************************************************************************)
(* ResourceMonitor.__init__: load_settings, init_ui, check_gpu and the     *)
(* seeding of the estimator, for a start store among stores and an         *)
(* environment among snaps, oks, gs and ms.                                *)
(***************************************************************************)
Constructed(stores, snaps, oks, gs, ms) ==
    \E st0 \in stores, t0 \in snaps, ok \in oks, g \in gs, m \in ms :
        LET s0 == load_settings(st0)
            p0 == <<s0.window_x, s0.window_y>>
            chk == check_gpu(s0, p0, Percent(0, NoColor), st0, g)
            t == get_system_times(ok, t0)
        IN  /\ settings = chk.settings
            /\ pos = p0
            /\ cpu_label = Percent(0, NoColor)
            /\ gpu_label = chk.gpu_label
            /\ ram_label = Percent(0, NoColor)
            /\ timer_interval = s0.update_interval
            /\ store = chk.store
            /\ prev_idle = t.idle
            /\ prev_kernel = t.kernel
            /\ prev_user = t.user
            /\ last_call = NoCall
            /\ loaded_show_gpu = s0.show_gpu
            /\ os_times = t0
            /\ api_ok = ok
            /\ gpus = g
            /\ memory = m
            /\ gpu_seen = (g # <<>>)

(***************************************************************************)
(* The sampling tick.                                                      *)
(***************************************************************************)
\* update_metrics' three sections under the settings s (those in force when it
\* runs): the CPU section, which reads the counters and replaces the stored sample,
cpu_section(s) ==
    IF s.show_cpu
    THEN LET t == get_system_times(api_ok, os_times)
             r == get_cpu_usage(prev_idle, prev_kernel, prev_user, t)
         IN  /\ prev_idle' = r.prev_idle
             /\ prev_kernel' = r.prev_kernel
             /\ prev_user' = r.prev_user
             /\ cpu_label' = Percent(FormatF0(r.usage.num, r.usage.den),
                                     update_label_color(s, r.usage))
             /\ last_call' = [called |-> TRUE,
                              before |-> <<prev_idle, prev_kernel, prev_user>>,
                              reading |-> t,
                              usage |-> r.usage]
    ELSE /\ cpu_label' = Blank
         /\ UNCHANGED <<prev_idle, prev_kernel, prev_user, last_call>>

\* the GPU section,
gpu_section(s) ==
    gpu_label' =
        IF s.show_gpu
        THEN IF gpus # <<>>
             THEN Percent(gpus[1], update_label_color(s, Rat(gpus[1], 1)))
             ELSE NotAvailable
        ELSE Blank

\* and the RAM section.
ram_section(s) ==
    ram_label' =
        IF s.show_ram
        THEN LET ram_usage == get_ram_usage(memory)
             IN  Percent(ram_usage, update_label_color(s, Rat(ram_usage, 1)))
        ELSE Blank

\* update_metrics run from its first statement to its last.
update_metrics(s) ==
    /\ cpu_section(s)
    /\ gpu_section(s)
    /\ ram_section(s)

\* The QTimer's timeout signal, connected to update_metrics.
timeout ==
    /\ update_metrics(settings)
    /\ UNCHANGED <<settings, pos, timer_interval, store, loaded_show_gpu>>
    /\ UNCHANGED <<envVars, colorVars, roundVars, autoVars, loopVars>>

(***************************************************************************)
(* The menu handlers.                                                      *)
(***************************************************************************)
toggle_cpu ==
    LET s == [settings EXCEPT !.show_cpu = ~settings.show_cpu]
    IN  /\ settings' = s
        /\ update_metrics(s)
        /\ store' = save_settings(s, pos, store)
        /\ UNCHANGED <<pos, timer_interval, loaded_show_gpu>>
        /\ UNCHANGED <<envVars, colorVars, roundVars, autoVars, loopVars>>

toggle_gpu ==
    LET s == [settings EXCEPT !.show_gpu = ~settings.show_gpu]
    IN  /\ settings' = s
        /\ update_metrics(s)
        /\ store' = save_settings(s, pos, store)
        /\ UNCHANGED <<pos, timer_interval, loaded_show_gpu>>
        /\ UNCHANGED <<envVars, colorVars, roundVars, autoVars, loopVars>>

toggle_ram ==
    LET s == [settings EXCEPT !.show_ram = ~settings.show_ram]
    IN  /\ settings' = s
        /\ update_metrics(s)
        /\ store' = save_settings(s, pos, store)
        /\ UNCHANGED <<pos, timer_interval, loaded_show_gpu>>
        /\ UNCHANGED <<envVars, colorVars, roundVars, autoVars, loopVars>>

\* A plausible slip: the estimator restarted from zero with the timer.
change_update_interval_resetting(interval) ==
    LET s == [settings EXCEPT !.update_interval = interval]
    IN  /\ settings' = s
        /\ timer_interval' = s.update_interval
        /\ store' = save_settings(s, pos, store)
        /\ prev_idle' = 0
        /\ prev_kernel' = 0
        /\ prev_user' = 0
        /\ UNCHANGED <<pos, cpu_label, gpu_label, ram_label, last_call, loaded_show_gpu>>
        /\ UNCHANGED <<envVars, colorVars, roundVars, autoVars, loopVars>>

change_update_interval(interval) ==
    LET s == [settings EXCEPT !.update_interval = interval]
    IN  /\ settings' = s
        /\ timer_interval' = s.update_interval
        /\ store' = save_settings(s, pos, store)
        /\ UNCHANGED <<pos, prev_idle, prev_kernel, prev_user, cpu_label, gpu_label,
                       ram_label, last_call, loaded_show_gpu>>
        /\ UNCHANGED <<envVars, colorVars, roundVars, autoVars, loopVars>>

\* update_font_size: every label's style sheet is set to the font size alone.
unstyled(label) == [label EXCEPT !.color = NoColor]

\* QInputDialog.getInt returned (font_size, ok).
change_font_size(font_size, ok) ==
    /\ IF ok
       THEN LET s == [settings EXCEPT !.font_size = font_size]
            IN  /\ settings' = s
                /\ store' = save_settings(s, pos, store)
                /\ cpu_label' = unstyled(cpu_label)
                /\ gpu_label' = unstyled(gpu_label)
                /\ ram_label' = unstyled(ram_label)
       ELSE UNCHANGED <<settings, store, cpu_label, gpu_label, ram_label>>
    /\ UNCHANGED <<pos, prev_idle, prev_kernel, prev_user, timer_interval, last_call,
                   loaded_show_gpu>>
    /\ UNCHANGED <<envVars, colorVars, roundVars, autoVars, loopVars>>

\* What the handlers below leave alone.
settingsFrame ==
    /\ UNCHANGED <<pos, prev_idle, prev_kernel, prev_user, cpu_label, gpu_label,
                   ram_label, timer_interval, last_call, loaded_show_gpu>>
    /\ UNCHANGED <<envVars, colorVars, roundVars, autoVars, loopVars>>

change_width(width, ok) ==
    /\ IF ok
       THEN LET s == [settings EXCEPT !.window_width = width]
            IN  settings' = s /\ store' = save_settings(s, pos, store)
       ELSE UNCHANGED <<settings, store>>
    /\ settingsFrame

change_height(height, ok) ==
    /\ IF ok
       THEN LET s == [settings EXCEPT !.window_height = height]
            IN  settings' = s /\ store' = save_settings(s, pos, store)
       ELSE UNCHANGED <<settings, store>>
    /\ settingsFrame

change_background_opacity(opacity, ok) ==
    /\ IF ok
       THEN LET s == [settings EXCEPT !.background_opacity = opacity]
            IN  settings' = s /\ store' = save_settings(s, pos, store)
       ELSE UNCHANGED <<settings, store>>
    /\ settingsFrame

change_text_opacity(opacity, ok) ==
    /\ IF ok
       THEN LET s == [settings EXCEPT !.text_opacity = opacity]
            IN  settings' = s /\ store' = save_settings(s, pos, store)
       ELSE UNCHANGED <<settings, store>>
    /\ settingsFrame

change_color_mode(mode) ==
    LET s == [settings EXCEPT !.color_mode = mode]
    IN  /\ settings' = s
        /\ store' = save_settings(s, pos, store)
        /\ settingsFrame

\* Dragging the window to p: self.move.
mouseMoveEvent(p) ==
    /\ pos' = p
    /\ UNCHANGED <<settings, prev_idle, prev_kernel, prev_user, cpu_label, gpu_label,
                   ram_label, timer_interval, store, last_call, loaded_show_gpu>>
    /\ UNCHANGED <<envVars, colorVars, roundVars, autoVars, loopVars>>

closeEvent ==
    /\ store' = save_settings(settings, pos, store)
    /\ UNCHANGED <<settings, pos, prev_idle, prev_kernel, prev_user, cpu_label,
                   gpu_label, ram_label, timer_interval, last_call, loaded_show_gpu>>
    /\ UNCHANGED <<envVars, colorVars, roundVars, autoVars, loopVars>>

(***************************************************************************)
(* The environment.                                                        *)
(***************************************************************************)
\* CPU time passes: the cumulative counters advance.
OsAdvance ==
    /\ \E t \in Snapshots :
          /\ NotEarlier(t, os_times)
          /\ t # os_times
          /\ os_times' = t
    /\ UNCHANGED <<api_ok, gpus, memory, gpu_seen>>
    /\ UNCHANGED <<widgetVars, colorVars, roundVars, autoVars, loopVars>>

\* GetSystemTimes starts or stops failing.
OsFault ==
    /\ api_ok' = ~api_ok
    /\ UNCHANGED <<os_times, gpus, memory, gpu_seen>>
    /\ UNCHANGED <<widgetVars, colorVars, roundVars, autoVars, loopVars>>

\* A GPU appears or disappears, or its load changes.
GpuChange ==
    /\ \E g \in GpuLists :
          /\ g # gpus
          /\ gpus' = g
          /\ gpu_seen' = (gpu_seen \/ g # <<>>)
    /\ UNCHANGED <<os_times, api_ok, memory>>
    /\ UNCHANGED <<widgetVars, colorVars, roundVars, autoVars, loopVars>>

(***************************************************************************)
(* The sampling engine: the timer, the handlers that sample or re-arm the  *)
(* timer, and the environment.                                             *)
(***************************************************************************)
Init ==
    /\ Constructed(StartStores, Snapshots, BOOLEAN, GpuLists, MemoryStatuses)
    /\ colorParked
    /\ roundParked
    /\ autoParked
    /\ loopParked

Next ==
    \/ timeout
    \/ toggle_cpu
    \/ toggle_gpu
    \/ toggle_ram
    \/ \E i \in Intervals : change_update_interval(i)
    \/ OsAdvance
    \/ OsFault
    \/ GpuChange

Spec == Init /\ [][Next]_vars

(***************************************************************************)
(* The sampling engine's properties.                                       *)
(***************************************************************************)
prev == <<prev_idle, prev_kernel, prev_user>>

\* The counters of a get_system_times result.
timesOf(t) == <<t.idle, t.kernel, t.user>>

\* C1: for a stored sample and a new reading whose counters did not decrease,
\* get_cpu_usage returned exactly 0.0 when totalDiff = (kernel - prevKernel) +
\* (user - prevUser) is 0, and 100 * (1 - idleDiff / totalDiff) otherwise; for
\* (1000, 500, 500) followed by (1100, 600, 600) it returned 50.
C1_CpuUsageFormula ==
    (last_call.called /\ NotEarlier(timesOf(last_call.reading), last_call.before)) =>
        LET idleDiff == last_call.reading.idle - last_call.before[1]
            totalDiff == (last_call.reading.kernel - last_call.before[2])
                         + (last_call.reading.user - last_call.before[3])
            u == last_call.usage
        IN  /\ totalDiff = 0 => (u.num = 0 /\ u.den = 1)
            /\ totalDiff # 0 => u.num * totalDiff = 100 * (totalDiff - idleDiff) * u.den
            /\ (last_call.before = <<1000, 500, 500>>
                /\ timesOf(last_call.reading) = <<1100, 600, 600>>) => u.num = 50 * u.den

\* C1's case: the scenario's two snapshots, and the 50 they yield.
C1_Witness ==
    /\ last_call.called
    /\ last_call.before = <<1000, 500, 500>>
    /\ timesOf(last_call.reading) = <<1100, 600, 600>>
    /\ last_call.usage.num = 50 * last_call.usage.den
    /\ cpu_label.kind = "percent"
    /\ cpu_label.val = 50

\* C2: the CPU percentage get_cpu_usage returned, and the one update_metrics
\* displays, lies in [0, 100].
C2_CpuPercentInRange ==
    /\ last_call.called =>
          /\ 0 <= last_call.usage.num
          /\ last_call.usage.num <= 100 * last_call.usage.den
    /\ cpu_label.kind = "percent" => cpu_label.val \in 0..100

\* C3: when GetSystemTimes failed on a tick, the CPU value of that tick is 0,
\* whatever the stored sample was.
C3_FailedReadingGivesZero ==
    (last_call.called /\ ~last_call.reading.success) => last_call.usage.num = 0

\* C4: with show_gpu loaded as true and no GPU available since start-up, the GPU
\* label is "GPU: N/A", never the blank of a disabled metric nor a percentage.
C4_AbsentGpuShowsNotAvailable ==
    (loaded_show_gpu /\ ~gpu_seen) => gpu_label = NotAvailable

\* C5: a step that changes the update interval re-arms the timer with the new
\* period and leaves the estimator's previous sample unchanged; the sample is
\* always the last reading get_cpu_usage took, so the next delta is computed
\* against the snapshot taken before the interval change.
C5_IntervalChangeKeepsSample ==
    /\ [](last_call.called => prev = timesOf(last_call.reading))
    /\ [][settings'.update_interval # settings.update_interval =>
            /\ prev' = prev
            /\ timer_interval' = settings'.update_interval]_vars

\* C5's case: the timer re-armed to 5000 ms (no start store holds 5000) in a run
\* whose estimator holds a real sample that a delta was computed against.
C5_Witness ==
    /\ timer_interval = 5000
    /\ settings.update_interval = 5000
    /\ last_call.called
    /\ last_call.before = <<1000, 500, 500>>
    /\ prev = <<1100, 600, 600>>
    /\ last_call.usage.num = 50 * last_call.usage.den

(***************************************************************************)
(* The colour mapper applied to the percentages k / PctScale of [0, 100].  *)
(***************************************************************************)
\* A widget at rest: a first run on a machine without a GPU.
widgetParked ==
    Constructed({EmptyStore}, {<<1000, 500, 500>>}, {TRUE}, {<<>>},
                {[ok |-> TRUE, dwMemoryLoad |-> 40]})

InitColor ==
    /\ usage \in {Rat(k, PctScale) : k \in 0..(100 * PctScale)}
    /\ color = NoColor
    /\ widgetParked
    /\ roundParked
    /\ autoParked
    /\ loopParked

ApplyColor ==
    /\ color = NoColor
    /\ color' = get_smooth_color_by_usage(usage)
    /\ UNCHANGED usage
    /\ UNCHANGED <<widgetVars, envVars, roundVars, autoVars, loopVars>>

NextColor == ApplyColor

SpecColor == InitColor /\ [][NextColor]_vars

\* C6: for every percent in [0, 100] the three channels lie in [0, 255], and the
\* colour is (0, 255, 0) at 0, (255, 255, 0) at 50 and (255, 0, 0) at 100.
C6_ChannelsInRangeAndAnchors ==
    color # NoColor =>
        /\ \A i \in 1..3 : color[i] \in 0..255
        /\ usage.num = 0 => color = <<0, 255, 0>>
        /\ usage.num = 50 * usage.den => color = <<255, 255, 0>>
        /\ usage.num = 100 * usage.den => color = <<255, 0, 0>>

\* C6's case: the mapper applied at the 50 % anchor.
C6_Witness == color = <<255, 255, 0>> /\ usage.num = 50 * usage.den

\* The interpolated value of channel i for the argument usage, before it is made
\* an integer: exactNum(i) / exactDen, with (c1, c2, t) = (green, yellow,
\* percent / 50) below 50 and (yellow, red, (percent - 50) / 50) from 50 on.
exactDen == 50 * usage.den

exactNum(i) ==
    IF usage.num < 50 * usage.den
    THEN green[i] * exactDen + (yellow[i] - green[i]) * usage.num
    ELSE yellow[i] * exactDen + (red[i] - yellow[i]) * (usage.num - 50 * usage.den)

\* C7: each channel is round(c1 + (c2 - c1) * t), the integer nearest to the
\* interpolated value.
C7_ChannelsRounded ==
    color # NoColor =>
        \A i \in 1..3 :
            /\ 2 * (color[i] * exactDen - exactNum(i)) <= exactDen
            /\ 2 * (exactNum(i) - color[i] * exactDen) <= exactDen

\* C7 as amended: each channel is the interpolated value truncated to an integer:
\* the largest integer not above it.
C7_ChannelsTruncated ==
    color # NoColor =>
        \A i \in 1..3 :
            /\ color[i] * exactDen <= exactNum(i)
            /\ exactNum(i) < (color[i] + 1) * exactDen

\* C7's case: at 0.5 % the red channel's interpolated value is 2.55, and the
\* channel is 2.
C7_Witness == usage.num * 2 = usage.den /\ color # NoColor /\ color[1] = 2

(***************************************************************************)
(* The settings model: every handler that changes a setting, the window    *)
(* being dragged and closed, and the timer, with the CPU counters at rest. *)
(***************************************************************************)
InitSettings ==
    /\ Constructed(StartStores, {<<1000, 500, 500>>}, {TRUE}, GpuLists,
                   {[ok |-> TRUE, dwMemoryLoad |-> 40]})
    /\ colorParked
    /\ roundParked
    /\ autoParked
    /\ loopParked

NextSettings ==
    \/ timeout
    \/ toggle_cpu
    \/ toggle_gpu
    \/ toggle_ram
    \/ \E i \in Intervals : change_update_interval(i)
    \/ \E n \in FontSizes, ok \in BOOLEAN : change_font_size(n, ok)
    \/ \E n \in Widths, ok \in BOOLEAN : change_width(n, ok)
    \/ \E n \in Heights, ok \in BOOLEAN : change_height(n, ok)
    \/ \E n \in Opacities, ok \in BOOLEAN : change_background_opacity(n, ok)
    \/ \E n \in Opacities, ok \in BOOLEAN : change_text_opacity(n, ok)
    \/ \E m \in COLOR_MODES : change_color_mode(m)
    \/ \E p \in Positions : mouseMoveEvent(p)
    \/ closeEvent

SpecSettings == InitSettings /\ [][NextSettings]_vars

\* The store holds a value under every key, and reading it back gives the
\* settings in memory, with the window's current position as window_x, window_y.
Persisted ==
    /\ \A k \in SettingsKeys : store[k] # Absent
    /\ load_settings(store) = [settings EXCEPT !.window_x = pos[1], !.window_y = pos[2]]

\* C8: every step that changes a setting leaves the store holding the current
\* in-memory value of every settings field, with the window's position.
C8_MutationsPersisted == [][settings' # settings => Persisted']_vars

\* C8's case: after a first run's dialogs, toggles and a drag, the store holds the
\* values they set.
C8_Witness ==
    /\ Persisted
    /\ settings.window_width = 1
    /\ settings.text_opacity = 0
    /\ ~settings.show_cpu
    /\ settings.color_mode = "Colored"
    /\ settings.update_interval = 5000
    /\ pos = <<140, 140>>

(***************************************************************************)
(* The settings round trip: load_settings followed by save_settings, from  *)
(* any store content, with the window wherever it is.                      *)
(***************************************************************************)
\* Round trips made from each store content.
MaxRounds == 2

\* Store contents: under each key nothing, a value as save_settings writes it, or
\* a value in another form that the typed read still converts.
StoreContents ==
    { [k \in SettingsKeys |->
          IF k = "show_cpu" THEN c[1]
          ELSE IF k = "show_gpu" THEN c[2]
          ELSE IF k = "show_ram" THEN c[3]
          ELSE IF k = "update_interval" THEN c[4]
          ELSE IF k = "font_size" THEN c[5]
          ELSE IF k = "window_width" THEN c[6]
          ELSE IF k = "window_height" THEN c[7]
          ELSE IF k = "background_opacity" THEN c[8]
          ELSE IF k = "text_opacity" THEN c[9]
          ELSE IF k = "color_mode" THEN c[10]
          ELSE IF k = "window_x" THEN c[11]
          ELSE c[12]] :
      c \in {Absent, StrVal("true"), StrVal("false"), StrVal("0"), IntVal(1)}
            \X {Absent, StrVal("false")}
            \X {Absent, StrVal("true")}
            \X {Absent, IntVal(1000), NumStr(5000)}
            \X {Absent, IntVal(8)}
            \X {Absent, NumStr(1)}
            \X {Absent, IntVal(1)}
            \X {Absent, IntVal(0)}
            \X {Absent, IntVal(0)}
            \X {Absent, StrVal("System"), StrVal("Colored")}
            \X {Absent, IntVal(140), NumStr(100)}
            \X {Absent, IntVal(140)} }

InitRoundTrip ==
    /\ store \in StoreContents
    /\ pos \in {<<0, 0>>, <<140, 100>>}
    /\ settings = load_settings(EmptyStore)
    /\ cpu_label = Percent(0, NoColor)
    /\ gpu_label = Percent(0, NoColor)
    /\ ram_label = Percent(0, NoColor)
    /\ timer_interval = 0
    /\ prev_idle = 0
    /\ prev_kernel = 0
    /\ prev_user = 0
    /\ last_call = NoCall
    /\ loaded_show_gpu = TRUE
    /\ os_times = <<1000, 500, 500>>
    /\ api_ok = TRUE
    /\ gpus = <<>>
    /\ memory = [ok |-> TRUE, dwMemoryLoad |-> 40]
    /\ gpu_seen = FALSE
    /\ colorParked
    /\ rounds = 0
    /\ first_store = EmptyStore
    /\ autoParked
    /\ loopParked

\* save(load()): load_settings, then save_settings.
RoundTrip ==
    /\ rounds < MaxRounds
    /\ LET s == load_settings(store)
       IN  /\ settings' = s
           /\ store' = save_settings(s, pos, store)
    /\ rounds' = rounds + 1
    /\ first_store' = IF rounds = 0 THEN store' ELSE first_store
    /\ UNCHANGED <<pos, prev_idle, prev_kernel, prev_user, cpu_label, gpu_label,
                   ram_label, timer_interval, last_call, loaded_show_gpu>>
    /\ UNCHANGED <<envVars, colorVars, autoVars, loopVars>>

NextRoundTrip == RoundTrip

SpecRoundTrip == InitRoundTrip /\ [][NextRoundTrip]_vars

\* C9: load_settings followed by save_settings, applied again, leaves the store as
\* the first application left it: the second round trip changes no key.
C9_RoundTripIdempotent == rounds >= 2 => store = first_store

\* C9's case: a second round trip made from a store that lacked keys and held
\* values in forms the first one rewrote ("0" as "false", "5000" as 5000).
C9_Witness ==
    /\ rounds = 2
    /\ store["show_cpu"] = StrVal("false")
    /\ store["update_interval"] = IntVal(5000)
    /\ store["font_size"] = IntVal(16)
    /\ store["window_x"] = IntVal(140)

(***************************************************************************)
(* Autostart: the registry value under HKCU\...\Run and the stable copy of *)
(* the executable.                                                         *)
(***************************************************************************)
\* Calls kept in the history.
MaxCalls == 2

REG_VALUE_NAME == "ResourceMonitor"

\* f'"{stable_exe_path}"'
exe_for_reg == "\"%LOCALAPPDATA%\\ResourceMonitor\\ResourceMonitor.exe\""

\* Data an earlier version or the user may have left under the value name.
OtherData == {"", "\"D:\\Downloads\\ResourceMonitor.exe\""}

\* Another program's autorun value.
OtherEntry == [name |-> "OneDrive", data |-> "\"C:\\OneDrive\\OneDrive.exe\" /background"]

\* winreg.SetValueEx: the value is created, or its data replaced.
SetValueEx(key, name, data) ==
    {e \in key : e.name # name} \cup {[name |-> name, data |-> data]}

HasValue(key, name) == \E e \in key : e.name = name

\* A plausible slip: the value written only when there is none yet.
add_to_startup_skipping_existing(key, dir, exe) ==
    IF ~dir /\ ~mkdir_ok
    THEN [run_key |-> key, stable_dir |-> dir, stable_exe |-> exe, outcome |-> "raised"]
    ELSE IF ~exe /\ ~copy_ok
    THEN [run_key |-> key, stable_dir |-> TRUE, stable_exe |-> exe, outcome |-> "raised"]
    ELSE IF ~reg_ok
    THEN [run_key |-> key, stable_dir |-> TRUE, stable_exe |-> TRUE,
          outcome |-> "registry error"]
    ELSE [run_key |-> IF HasValue(key, REG_VALUE_NAME) THEN key
                      ELSE SetValueEx(key, REG_VALUE_NAME, exe_for_reg),
          stable_dir |-> TRUE, stable_exe |-> TRUE, outcome |-> "configured"]

\* add_to_startup with the Run key's values key, the stable directory (dir) and
\* executable (exe) existing or not: what it leaves, and how it ends: "raised"
\* (os.makedirs or shutil.copyfile raised), "registry error" (the except branch
\* printed the error) or "configured".
add_to_startup(key, dir, exe) ==
    IF ~dir /\ ~mkdir_ok
    THEN [run_key |-> key, stable_dir |-> dir, stable_exe |-> exe, outcome |-> "raised"]
    ELSE IF ~exe /\ ~copy_ok
    THEN [run_key |-> key, stable_dir |-> TRUE, stable_exe |-> exe, outcome |-> "raised"]
    ELSE IF ~reg_ok
    THEN [run_key |-> key, stable_dir |-> TRUE, stable_exe |-> TRUE,
          outcome |-> "registry error"]
    ELSE [run_key |-> SetValueEx(key, REG_VALUE_NAME, exe_for_reg),
          stable_dir |-> TRUE, stable_exe |-> TRUE, outcome |-> "configured"]

\* remove_from_startup: "error" (access refused, printed), "not enabled" (the
\* value was not found, printed as information) or "removed".
remove_from_startup(key) ==
    IF ~reg_ok
    THEN [run_key |-> key, outcome |-> "error"]
    ELSE IF ~HasValue(key, REG_VALUE_NAME)
    THEN [run_key |-> key, outcome |-> "not enabled"]
    ELSE [run_key |-> {e \in key : e.name # REG_VALUE_NAME}, outcome |-> "removed"]

\* True when the value is found and its data is not empty.
is_autostart_enabled(key) ==
    \E e \in key : e.name = REG_VALUE_NAME /\ e.data # ""

\* The history with one more call, the oldest dropped beyond MaxCalls.
Logged(c) ==
    LET all == Append(calls, c)
    IN  IF Len(all) > MaxCalls THEN Tail(all) ELSE all

\* announced: whether "Autostart enabled." / "Autostart disabled." was printed.
enable_autostart ==
    LET r == add_to_startup(run_key, stable_dir, stable_exe)
    IN  /\ run_key' = r.run_key
        /\ stable_dir' = r.stable_dir
        /\ stable_exe' = r.stable_exe
        /\ calls' = Logged([op |-> "enable_autostart", outcome |-> r.outcome,
                            announced |-> r.outcome # "raised",
                            after |-> <<r.run_key, r.stable_dir, r.stable_exe>>])
        /\ UNCHANGED <<mkdir_ok, copy_ok, reg_ok>>
        /\ UNCHANGED <<widgetVars, envVars, colorVars, roundVars, loopVars>>

disable_autostart ==
    LET r == remove_from_startup(run_key)
    IN  /\ run_key' = r.run_key
        /\ calls' = Logged([op |-> "disable_autostart", outcome |-> r.outcome,
                            announced |-> TRUE,
                            after |-> <<r.run_key, stable_dir, stable_exe>>])
        /\ UNCHANGED <<stable_dir, stable_exe, mkdir_ok, copy_ok, reg_ok>>
        /\ UNCHANGED <<widgetVars, envVars, colorVars, roundVars, loopVars>>

\* The value is deleted or edited outside the program.
RegistryEdited ==
    /\ \E key \in {{e \in run_key : e.name # REG_VALUE_NAME}}
                  \cup {SetValueEx(run_key, REG_VALUE_NAME, d) : d \in OtherData} :
          /\ key # run_key
          /\ run_key' = key
    /\ calls' = <<>>
    /\ UNCHANGED <<stable_dir, stable_exe, mkdir_ok, copy_ok, reg_ok>>
    /\ UNCHANGED <<widgetVars, envVars, colorVars, roundVars, loopVars>>

\* Any starting OS state: the value absent, empty, stale or ours, beside another
\* program's value or not; the stable copy present or not; each operation
\* granted or refused.
InitAutostart ==
    /\ \E own \in {{}} \cup {{[name |-> REG_VALUE_NAME, data |-> d]} :
                             d \in OtherData \cup {exe_for_reg}},
          others \in {{}, {OtherEntry}} :
          run_key = own \cup others
    /\ stable_dir \in BOOLEAN
    /\ stable_exe \in BOOLEAN
    /\ stable_exe => stable_dir
    /\ mkdir_ok \in BOOLEAN
    /\ copy_ok \in BOOLEAN
    /\ reg_ok \in BOOLEAN
    /\ calls = <<>>
    /\ widgetParked
    /\ colorParked
    /\ roundParked
    /\ loopParked

NextAutostart ==
    \/ enable_autostart
    \/ disable_autostart
    \/ RegistryEdited

SpecAutostart == InitAutostart /\ [][NextAutostart]_vars

\* The last call and the one before it.
lastCall == calls[Len(calls)]

callBefore == calls[Len(calls) - 1]

ownValues == {e \in run_key : e.name = REG_VALUE_NAME}

\* Both calls returned to their caller.
bothReturned == callBefore.outcome # "raised" /\ lastCall.outcome # "raised"

C11_DenialReportedToCaller ==
    (Len(calls) >= 1 /\ lastCall.op = "enable_autostart"
                     /\ lastCall.outcome # "configured") =>
        /\ lastCall.outcome # "raised"
        /\ lastCall.announced => is_autostart_enabled(run_key)

(***************************************************************************)
(* The GPU preference: a run in which the user never toggles the GPU       *)
(* display, started from a store in which it is on, off or not yet saved,  *)
(* with the CPU counters at rest.                                          *)
(***************************************************************************)
\* The store a run leaves in which the user had turned the GPU display off.
GpuOffStore == [SavedStore EXCEPT !["show_gpu"] = WriteBool(FALSE)]

InitPreference ==
    /\ Constructed(StartStores \cup {GpuOffStore}, {<<1000, 500, 500>>}, {TRUE},
                   GpuLists, {[ok |-> TRUE, dwMemoryLoad |-> 40]})
    /\ colorParked
    /\ roundParked
    /\ autoParked
    /\ loopParked

NextPreference ==
    \/ timeout
    \/ toggle_cpu
    \/ toggle_ram
    \/ \E i \in Intervals : change_update_interval(i)
    \/ closeEvent
    \/ GpuChange

SpecPreference == InitPreference /\ [][NextPreference]_vars

\* C12: finding no GPU device leaves the user's show_gpu setting as it was
\* loaded, in memory and in the store: while the user does not toggle it,
\* show_gpu in memory and show_gpu as the next process start will read it from
\* the store are both the value read at start-up.
C12_GpuPreferenceKept ==
    /\ settings.show_gpu = loaded_show_gpu
    /\ load_settings(store).show_gpu = loaded_show_gpu

(***************************************************************************)
(* The GUI thread: every handler runs on it, called by the event loop it   *)
(* is in.  The handlers that sample or re-arm the timer are taken one      *)
(* statement at a time, so that what the timer and the menu may do while a *)
(* handler is running is visible.                                          *)
(***************************************************************************)
\* A frame of the call stack: the function, and the statement it is at or will
\* resume at when the frame above it returns.
Frame(fn, at) == [fn |-> fn, at |-> at]

\* The calls that run an event loop of their own until they return:
\* context_menu.exec_ in show_context_menu, QInputDialog.getInt in change_font_size.
NestedLoops ==
    {Frame("show_context_menu", "exec_"), Frame("change_font_size", "getInt")}

top(stk) == stk[Len(stk)]

pop(stk) == SubSeq(stk, 1, Len(stk) - 1)

\* The toggle handlers and the setting each one flips.
ToggleKey ==
    [toggle_cpu |-> "show_cpu", toggle_gpu |-> "show_gpu", toggle_ram |-> "show_ram"]

\* A plausible slip: update_metrics letting the event loop run while it samples.
in_event_loop_reentrant(stk) ==
    IF stk = <<>> THEN TRUE
    ELSE (top(stk) \in NestedLoops) \/ (top(stk).fn = "update_metrics")

\* Signals are delivered by the event loop the GUI thread is in: app.exec_ when
\* no handler is running, or the loop of the innermost call when that is one.
in_event_loop(stk) == IF stk = <<>> THEN TRUE ELSE top(stk) \in NestedLoops

\* What a statement of update_metrics or of a toggle leaves alone.
loopFrame == UNCHANGED <<pos, timer_interval, loaded_show_gpu, timer_due>>

othersFrame == UNCHANGED <<envVars, colorVars, roundVars, autoVars>>

\* The interval the timer is armed with has elapsed, whatever the thread is doing.
QTimerExpires ==
    /\ ~timer_due
    /\ timer_due' = TRUE
    /\ UNCHANGED <<widgetVars, stack>>
    /\ othersFrame

\* The event loop emits timeout: update_metrics is called.
timeout_delivered ==
    /\ in_event_loop(stack)
    /\ timer_due
    /\ timer_due' = FALSE
    /\ stack' = Append(stack, Frame("update_metrics", "cpu"))
    /\ UNCHANGED widgetVars
    /\ othersFrame

run_cpu_section ==
    /\ stack # <<>>
    /\ top(stack) = Frame("update_metrics", "cpu")
    /\ cpu_section(settings)
    /\ stack' = Append(pop(stack), Frame("update_metrics", "gpu"))
    /\ UNCHANGED <<settings, store, gpu_label, ram_label>>
    /\ loopFrame
    /\ othersFrame

run_gpu_section ==
    /\ stack # <<>>
    /\ top(stack) = Frame("update_metrics", "gpu")
    /\ gpu_section(settings)
    /\ stack' = Append(pop(stack), Frame("update_metrics", "ram"))
    /\ UNCHANGED <<settings, store, prev_idle, prev_kernel, prev_user, cpu_label,
                   ram_label, last_call>>
    /\ loopFrame
    /\ othersFrame

\* The last section; update_metrics returns to its caller.
run_ram_section ==
    /\ stack # <<>>
    /\ top(stack) = Frame("update_metrics", "ram")
    /\ ram_section(settings)
    /\ stack' = pop(stack)
    /\ UNCHANGED <<settings, store, prev_idle, prev_kernel, prev_user, cpu_label,
                   gpu_label, last_call>>
    /\ loopFrame
    /\ othersFrame

\* customContextMenuRequested: the menu is built and context_menu.exec_ entered.
show_context_menu ==
    /\ stack = <<>>
    /\ stack' = <<Frame("show_context_menu", "exec_")>>
    /\ UNCHANGED <<widgetVars, timer_due>>
    /\ othersFrame

\* The menu is closed without a choice: exec_ and show_context_menu return.
menu_dismissed ==
    /\ stack # <<>>
    /\ top(stack) = Frame("show_context_menu", "exec_")
    /\ stack' = pop(stack)
    /\ UNCHANGED <<widgetVars, timer_due>>
    /\ othersFrame

\* A toggle is chosen in the menu: the handler flips its setting and calls
\* update_metrics.
toggle_triggered(fn) ==
    /\ stack # <<>>
    /\ top(stack) = Frame("show_context_menu", "exec_")
    /\ settings' = [settings EXCEPT ![ToggleKey[fn]] = ~settings[ToggleKey[fn]]]
    /\ stack' = stack \o <<Frame(fn, "save_settings"), Frame("update_metrics", "cpu")>>
    /\ UNCHANGED <<store, prev_idle, prev_kernel, prev_user, cpu_label, gpu_label,
                   ram_label, last_call>>
    /\ loopFrame
    /\ othersFrame

\* update_metrics has returned to the toggle: save_settings, and the handler and
\* the menu return.
toggle_saves ==
    /\ stack # <<>>
    /\ top(stack).fn \in DOMAIN ToggleKey
    /\ store' = save_settings(settings, pos, store)
    /\ stack' = pop(pop(stack))
    /\ UNCHANGED <<settings, prev_idle, prev_kernel, prev_user, cpu_label, gpu_label,
                   ram_label, last_call>>
    /\ loopFrame
    /\ othersFrame

\* An interval is chosen in the menu: timer.start stops the timer and arms it anew.
change_update_interval_triggered(interval) ==
    /\ stack # <<>>
    /\ top(stack) = Frame("show_context_menu", "exec_")
    /\ LET s == [settings EXCEPT !.update_interval = interval]
       IN  /\ settings' = s
           /\ timer_interval' = s.update_interval
           /\ store' = save_settings(s, pos, store)
    /\ timer_due' = FALSE
    /\ stack' = pop(stack)
    /\ UNCHANGED <<pos, prev_idle, prev_kernel, prev_user, cpu_label, gpu_label,
                   ram_label, last_call, loaded_show_gpu>>
    /\ othersFrame

\* "Change Font Size" is chosen: the handler opens the dialog.
change_font_size_triggered ==
    /\ stack # <<>>
    /\ top(stack) = Frame("show_context_menu", "exec_")
    /\ stack' = Append(stack, Frame("change_font_size", "getInt"))
    /\ UNCHANGED <<widgetVars, timer_due>>
    /\ othersFrame

\* The dialog is closed with (font_size, ok): the handler and the menu return.
getInt_returns(font_size, ok) ==
    /\ stack # <<>>
    /\ top(stack) = Frame("change_font_size", "getInt")
    /\ IF ok
       THEN LET s == [settings EXCEPT !.font_size = font_size]
            IN  /\ settings' = s
                /\ store' = save_settings(s, pos, store)
                /\ cpu_label' = unstyled(cpu_label)
                /\ gpu_label' = unstyled(gpu_label)
                /\ ram_label' = unstyled(ram_label)
       ELSE UNCHANGED <<settings, store, cpu_label, gpu_label, ram_label>>
    /\ stack' = pop(pop(stack))
    /\ UNCHANGED <<prev_idle, prev_kernel, prev_user, last_call>>
    /\ loopFrame
    /\ othersFrame

InitLoop ==
    /\ Constructed(StartStores, {<<1000, 500, 500>>}, {TRUE}, {<<50>>},
                   {[ok |-> TRUE, dwMemoryLoad |-> 40]})
    /\ colorParked
    /\ roundParked
    /\ autoParked
    /\ loopParked

NextLoop ==
    \/ QTimerExpires
    \/ timeout_delivered
    \/ run_cpu_section
    \/ run_gpu_section
    \/ run_ram_section
    \/ show_context_menu
    \/ menu_dismissed
    \/ \E fn \in DOMAIN ToggleKey : toggle_triggered(fn)
    \/ toggle_saves
    \/ \E i \in Intervals : change_update_interval_triggered(i)
    \/ change_font_size_triggered
    \/ \E n \in FontSizes, ok \in BOOLEAN : getInt_returns(n, ok)
    \/ OsAdvance

SpecLoop == InitLoop /\ [][NextLoop]_vars

\* The executions of update_metrics in progress.
ticksRunning == {i \in DOMAIN stack : stack[i].fn = "update_metrics"}

\* This step calls update_metrics.
tickBegins == Len(stack') > Len(stack) /\ top(stack').fn = "update_metrics"

\* C13: no two executions of update_metrics overlap: whatever the order of timer
\* expiries, toggles and interval changes, at most one execution is in progress,
\* one begins only when none is, and the stored sample is replaced only by the
\* execution in progress, in its CPU section.
C13_TicksNeverOverlap ==
    /\ [](Cardinality(ticksRunning) <= 1)
    /\ [][tickBegins => ticksRunning = {}]_vars
    /\ [][prev' # prev => top(stack) = Frame("update_metrics", "cpu")]_vars

\* C13's case: the timer expires while update_metrics, called by toggle_cpu from
\* the menu, has replaced the stored sample and has not yet returned.
C13_Witness ==
    /\ stack = <<Frame("show_context_menu", "exec_"), Frame("toggle_cpu", "save_settings"),
                 Frame("update_metrics", "gpu")>>
    /\ timer_due
    /\ last_call.called
    /\ prev # <<1000, 500, 500>>

====
